---- MODULE Spec2Model ----
(***************************************************************************)
(* Model of photo_time_printer.py: the timestamp resolver                  *)
(* (DateTimeExtractor._get_image_datetime), the background batch worker    *)
(* (DateTimeExtractor.run) with the main thread's handlers and the queued  *)
(* signal delivery between them, and the print path (_print_action).       *)
(*                                                                         *)
(* Text is modelled as sequences of one-character strings, so that the     *)
(* regular-expression searches, strptime and strftime are computed on      *)
(* characters and numbers as the code computes them.                       *)
(***************************************************************************)
EXTENDS Integers, Sequences, FiniteSets, TLC

VARIABLES
    \* --- resolver (one call of _get_image_datetime) ---
    file,                \* the file the resolver is applied to
    resolved,            \* its return value, or NotYet before the call
    \* --- batch extraction ---
    workers,             \* every DateTimeExtractor ever created, by id (emitted: its signals so far)
    datetime_extractor_thread,  \* self.datetime_extractor_thread (0 = None)
    queue,               \* queued signal deliveries posted to the main thread
    stale,               \* history: the Result and Completed slots run for a worker that was
                         \* no longer the current one
    emptied,             \* history: the selection was last cleared by _select_folder for a
                         \* folder without image files, and no batch was started since
    selected_photos,     \* self.selected_photos: path -> date_time_str
    photo_list_widget,   \* items of the list widget, in order
    mainpc,              \* where the main thread is
    pending,             \* file_paths of the _process_selected_files call blocked in wait()
    \* --- print job ---
    selection,           \* the selection of the list widget
    selected_items,      \* selected_items of the last _print_action (line 512)
    painter_begin,       \* what painter.begin(printer) returned in it, "not called" if not reached
    sink,                \* operations received by the printer in the last job
    opened,              \* photos handed to Image.open in the last job
    print_status,        \* outcome of the last _print_action
    error_box,           \* whether QMessageBox.critical was shown by the last job
    \* --- layout of one photo ---
    geom,                \* image size and printable area
    placement            \* the draw rectangle computed for it, or NullRect

resolveVars == <<file, resolved>>
batchVars == <<workers, datetime_extractor_thread, queue, stale, emptied, selected_photos,
               photo_list_widget, mainpc, pending>>
printVars == <<selection, selected_items, painter_begin, sink, opened, print_status, error_box>>
layoutVars == <<geom, placement>>
vars == <<file, resolved, workers, datetime_extractor_thread, queue, stale, emptied,
          selected_photos, photo_list_widget, mainpc, pending,
          selection, selected_items, painter_begin, sink, opened, print_status, error_box,
          geom, placement>>

\* no value yet: the empty text, and the null rectangle
NotYet == <<>>
NullRect == [x |-> 0, y |-> 0, w |-> 0, h |-> 0]

(***************************************************************************)
(* Characters, numbers and calendar                                        *)
(***************************************************************************)
Digits == {"0", "1", "2", "3", "4", "5", "6", "7", "8", "9"}

IsDigit(c) == c \in Digits

DigitVal(c) ==
    CASE c = "0" -> 0 [] c = "1" -> 1 [] c = "2" -> 2 [] c = "3" -> 3 [] c = "4" -> 4
      [] c = "5" -> 5 [] c = "6" -> 6 [] c = "7" -> 7 [] c = "8" -> 8 [] c = "9" -> 9

DigitChar(n) ==
    CASE n = 0 -> "0" [] n = 1 -> "1" [] n = 2 -> "2" [] n = 3 -> "3" [] n = 4 -> "4"
      [] n = 5 -> "5" [] n = 6 -> "6" [] n = 7 -> "7" [] n = 8 -> "8" [] n = 9 -> "9"

\* int() of a run of decimal digits
RECURSIVE ToInt(_)
ToInt(s) ==
    IF s = <<>> THEN 0
    ELSE 10 * ToInt(SubSeq(s, 1, Len(s) - 1)) + DigitVal(s[Len(s)])

AllDigits(s) == \A k \in 1..Len(s) : IsDigit(s[k])

\* zero-padded decimal of n in at least `width` characters (%Y, %m, %d, %H, %M of strftime)
RECURSIVE Pad(_, _)
Pad(n, width) ==
    IF width <= 1 /\ n < 10 THEN <<DigitChar(n)>>
    ELSE Pad(n \div 10, width - 1) \o <<DigitChar(n % 10)>>

IsLeap(y) == (y % 4 = 0 /\ y % 100 # 0) \/ y % 400 = 0

DaysInMonth(y, m) ==
    IF m = 2 THEN (IF IsLeap(y) THEN 29 ELSE 28)
    ELSE IF m \in {4, 6, 9, 11} THEN 30 ELSE 31

\* the range checks of the datetime constructor (ValueError otherwise)
ValidDateTime(y, mo, d, h, mi, s) ==
    /\ y >= 1 /\ y <= 9999
    /\ mo >= 1 /\ mo <= 12
    /\ d >= 1 /\ d <= DaysInMonth(y, mo)
    /\ h >= 0 /\ h <= 23
    /\ mi >= 0 /\ mi <= 59
    /\ s >= 0 /\ s <= 59

ValueError == [ok |-> FALSE]

DateTime(y, mo, d, h, mi, s) ==
    IF ValidDateTime(y, mo, d, h, mi, s)
    THEN [ok |-> TRUE, y |-> y, mo |-> mo, d |-> d, h |-> h, mi |-> mi, s |-> s]
    ELSE ValueError

\* dt.strftime('%Y/%m/%d %H:%M')
Strftime(dt) ==
    Pad(dt.y, 4) \o <<"/">> \o Pad(dt.mo, 2) \o <<"/">> \o Pad(dt.d, 2) \o <<" ">>
        \o Pad(dt.h, 2) \o <<":">> \o Pad(dt.mi, 2)

\* the literal returned when every tier fails
Unknown == <<"U", "n", "k", "n", "o", "w", "n">>

(***************************************************************************)
(* datetime.strptime for the four formats the code uses.  The fields of    *)
(* these formats are matched by the regular expressions of _strptime; on a *)
(* text of the full length every field takes two digits (four for %Y), a   *)
(* shorter take leaves unconverted data or no match, and both raise        *)
(* ValueError, as do out-of-range fields in the datetime constructor.      *)
(***************************************************************************)
Field(s, a, b) == ToInt(SubSeq(s, a, b))

\* '%Y%m%d'
StrptimeDate(s) ==
    IF Len(s) = 8 /\ AllDigits(s)
    THEN DateTime(Field(s, 1, 4), Field(s, 5, 6), Field(s, 7, 8), 0, 0, 0)
    ELSE ValueError

\* '%Y%m%d%H%M%S'
StrptimeCompact(s) ==
    IF Len(s) = 14 /\ AllDigits(s)
    THEN DateTime(Field(s, 1, 4), Field(s, 5, 6), Field(s, 7, 8),
                  Field(s, 9, 10), Field(s, 11, 12), Field(s, 13, 14))
    ELSE ValueError

\* '%Y%m%d_%H%M%S'
StrptimeUnderscore(s) ==
    IF Len(s) = 15 /\ AllDigits(SubSeq(s, 1, 8)) /\ s[9] = "_" /\ AllDigits(SubSeq(s, 10, 15))
    THEN DateTime(Field(s, 1, 4), Field(s, 5, 6), Field(s, 7, 8),
                  Field(s, 10, 11), Field(s, 12, 13), Field(s, 14, 15))
    ELSE ValueError

\* '%Y:%m:%d %H:%M:%S'
StrptimeExif(s) ==
    IF /\ Len(s) = 19
       /\ AllDigits(SubSeq(s, 1, 4)) /\ s[5] = ":" /\ AllDigits(SubSeq(s, 6, 7))
       /\ s[8] = ":" /\ AllDigits(SubSeq(s, 9, 10)) /\ s[11] = " "
       /\ AllDigits(SubSeq(s, 12, 13)) /\ s[14] = ":" /\ AllDigits(SubSeq(s, 15, 16))
       /\ s[17] = ":" /\ AllDigits(SubSeq(s, 18, 19))
    THEN DateTime(Field(s, 1, 4), Field(s, 6, 7), Field(s, 9, 10),
                  Field(s, 12, 13), Field(s, 15, 16), Field(s, 18, 19))
    ELSE ValueError

Strptime(s, fmt) ==
    CASE fmt = "%Y%m%d_%H%M%S" -> StrptimeUnderscore(s)
      [] fmt = "%Y%m%d%H%M%S" -> StrptimeCompact(s)
      [] fmt = "%Y%m%d" -> StrptimeDate(s)
      [] fmt = "%Y:%m:%d %H:%M:%S" -> StrptimeExif(s)

(***************************************************************************)
(* Regular expressions: a pattern is a sequence of tokens, "\\d" for the   *)
(* digit class and a one-character string for a literal.                   *)
(***************************************************************************)
D == "\\d"

Rep(tok, n) == [k \in 1..n |-> tok]

IMG == <<"I", "M", "G", "_">>
DSC == <<"D", "S", "C", "_">>

MatchAt(s, i, pat) ==
    /\ i + Len(pat) - 1 <= Len(s)
    /\ \A k \in 1..Len(pat) :
         IF pat[k] = D THEN IsDigit(s[i + k - 1]) ELSE s[i + k - 1] = pat[k]

\* re.search(pattern, s): the start of the leftmost match, 0 when there is none
Search(pat, s) ==
    LET hits == {i \in 1..Len(s) : MatchAt(s, i, pat)}
    IN  IF hits = {} THEN 0 ELSE CHOOSE i \in hits : \A j \in hits : i <= j

\* match.group(0)
Group0(pat, s) == SubSeq(s, Search(pat, s), Search(pat, s) + Len(pat) - 1)

\* s.replace(lit, '')
RECURSIVE Replace(_, _)
Replace(s, lit) ==
    IF s = <<>> THEN <<>>
    ELSE IF MatchAt(s, 1, lit) THEN Replace(SubSeq(s, Len(lit) + 1, Len(s)), lit)
    ELSE <<s[1]>> \o Replace(SubSeq(s, 2, Len(s)), lit)

\* os.path.basename(file_path)
RECURSIVE Basename(_)
Basename(p) ==
    IF \E k \in 1..Len(p) : p[k] = "/"
    THEN Basename(SubSeq(p, 2, Len(p)))
    ELSE p

\* the pattern list of the filename tier, in the order the code lists it
patterns == <<
    [pattern |-> Rep(D, 8) \o <<"_">> \o Rep(D, 6),          fmt |-> "%Y%m%d_%H%M%S"],
    [pattern |-> IMG \o Rep(D, 8) \o <<"_">> \o Rep(D, 6),   fmt |-> "%Y%m%d_%H%M%S"],
    [pattern |-> DSC \o Rep(D, 14),                          fmt |-> "%Y%m%d%H%M%S"],
    [pattern |-> Rep(D, 8),                                  fmt |-> "%Y%m%d"],
    [pattern |-> IMG \o Rep(D, 8),                           fmt |-> "%Y%m%d"] >>

\* what one pattern contributes: the parsed instant of its leftmost match, or
\* ValueError-like "no value" when it does not match or its match does not convert
TryPattern(p, filename) ==
    IF Search(p.pattern, filename) = 0 THEN ValueError
    ELSE Strptime(Replace(Replace(Group0(p.pattern, filename), IMG), DSC), p.fmt)

\* mutant: the loop stops at the first pattern that matches, converted or not
RECURSIVE InferFromStopAtMatch(_, _, _)
InferFromStopAtMatch(pats, k, filename) ==
    IF k > Len(pats) THEN Unknown
    ELSE IF Search(pats[k].pattern, filename) # 0
         THEN IF TryPattern(pats[k], filename).ok
              THEN Strftime(TryPattern(pats[k], filename))
              ELSE Unknown
         ELSE InferFromStopAtMatch(pats, k + 1, filename)

\* the loop over the patterns from index k on
RECURSIVE InferFrom(_, _, _)
InferFrom(pats, k, filename) ==
    IF k > Len(pats) THEN Unknown
    ELSE IF TryPattern(pats[k], filename).ok THEN Strftime(TryPattern(pats[k], filename))
    ELSE InferFrom(pats, k + 1, filename)

\* tier 3: filename inference
FilenameTier(file_path) == InferFrom(patterns, 1, Basename(file_path))

(***************************************************************************)
(* Tiers 1 and 2 and the resolver                                          *)
(***************************************************************************)
Fall == "Fall"

DateTags == {"DateTimeOriginal", "DateTimeDigitized"}

\* the loop over exif_data.items() from entry k on
RECURSIVE ExifFrom(_, _)
ExifFrom(exif, k) ==
    IF k > Len(exif) THEN Fall
    ELSE IF exif[k].tag \in DateTags /\ Strptime(exif[k].value, "%Y:%m:%d %H:%M:%S").ok
         THEN Strftime(Strptime(exif[k].value, "%Y:%m:%d %H:%M:%S"))
         ELSE ExifFrom(exif, k + 1)

\* tier 1: Image.open, _getexif and the tag loop; any exception falls through
ExifTier(f) == IF f.image = "IOError" THEN Fall ELSE ExifFrom(f.exif, 1)

\* tier 2: os.path.getctime and datetime.fromtimestamp; any exception falls through
CtimeTier(f) == IF ~f.ctime.ok THEN Fall ELSE Strftime(f.ctime)

\* mutant: the filesystem time is consulted before the embedded metadata
GetImageDatetimeCtimeFirst(f) ==
    IF CtimeTier(f) # Fall THEN CtimeTier(f)
    ELSE IF ExifTier(f) # Fall THEN ExifTier(f)
    ELSE FilenameTier(f.path)

\* _get_image_datetime
GetImageDatetime(f) ==
    IF ExifTier(f) # Fall THEN ExifTier(f)
    ELSE IF CtimeTier(f) # Fall THEN CtimeTier(f)
    ELSE FilenameTier(f.path)

(***************************************************************************)
(* Inputs of the resolver: files with their three sources                  *)
(***************************************************************************)
MaxTags == 2

D2023 == <<"2", "0", "2", "3", "0", "6", "1", "5">>
D2024 == <<"2", "0", "2", "4", "0", "1", "0", "1">>
DMonth13 == <<"2", "0", "2", "3", "1", "3", "0", "5">>
T1430 == <<"1", "4", "3", "0", "0", "0">>
T1200 == <<"1", "2", "0", "0", "0", "0">>
THour25 == <<"2", "5", "0", "0", "0", "0">>
Jpg == <<".", "j", "p", "g">>
Photo == <<"p", "h", "o", "t", "o">>

NameHeads == {<<>>, IMG, DSC}
NameDates == {D2023, DMonth13}
NameTimes == {<<>>, <<"_">> \o T1430, <<"_">> \o THour25, T1430}
NameTails == {<<>>, <<"_">> \o D2024, <<"_">> \o IMG \o D2024 \o <<"_">> \o T1200}

FileNames ==
    {h \o d \o t \o tail \o Jpg : h \in NameHeads, d \in NameDates, t \in NameTimes, tail \in NameTails}
        \cup {Photo \o Jpg}

\* a directory whose name looks like a timestamp: only the base name may be searched
DatedDir == <<"/">> \o D2024 \o <<"_">> \o T1200 \o <<"/">>

FilePaths == FileNames \cup {DatedDir \o Photo \o Jpg, DatedDir \o IMG \o D2023 \o Jpg}

ExifValues == {
    <<"2", "0", "2", "1", ":", "0", "3", ":", "0", "4", " ", "0", "5", ":", "0", "6", ":", "0", "7">>,
    <<"2", "0", "1", "9", ":", "1", "2", ":", "3", "1", " ", "2", "3", ":", "5", "9", ":", "5", "9">>,
    <<"0", "0", "0", "0", ":", "0", "0", ":", "0", "0", " ", "0", "0", ":", "0", "0", ":", "0", "0">> }

ExifTags == DateTags \cup {"Make"}

\* the items of an EXIF dictionary, in the order the container lists them
ExifContainers ==
    UNION {{e \in [1..n -> [tag : ExifTags, value : ExifValues]] :
              \A i, j \in 1..n : i # j => e[i].tag # e[j].tag} : n \in 0..MaxTags}

\* os.path.getctime raised
OSError == [ok |-> FALSE]

\* the outcome of the stat call: OSError, or the local calendar time of the timestamp
Ctimes == {OSError,
           [ok |-> TRUE, y |-> 2024, mo |-> 1, d |-> 1, h |-> 0, mi |-> 0, s |-> 0],
           [ok |-> TRUE, y |-> 1999, mo |-> 7, d |-> 9, h |-> 8, mi |-> 5, s |-> 59]}

Files ==
    [path : FilePaths, image : {"IOError"}, exif : {<<>>}, ctime : Ctimes]
        \cup [path : FilePaths, image : {"ok"}, exif : ExifContainers, ctime : Ctimes]

(***************************************************************************)
(* Batch extraction: the worker thread (DateTimeExtractor.run), the main   *)
(* thread's handlers, and the queued signal deliveries between them.  A    *)
(* signal emitted by the worker is posted to the main thread's event queue *)
(* and its slot runs only when the main thread is back in its event loop.  *)
(***************************************************************************)
MaxBatches == 2
MaxFiles == 2

BatchFiles == {
    [path |-> IMG \o D2023 \o Jpg, image |-> "ok",
     exif |-> <<[tag |-> "DateTimeOriginal",
                 value |-> <<"2", "0", "2", "1", ":", "0", "3", ":", "0", "4", " ",
                             "0", "5", ":", "0", "6", ":", "0", "7">>]>>,
     ctime |-> OSError],
    [path |-> Photo \o Jpg, image |-> "IOError", exif |-> <<>>, ctime |-> OSError],
    [path |-> DSC \o D2023 \o T1430 \o Jpg, image |-> "IOError", exif |-> <<>>, ctime |-> OSError] }

\* the files of a selection, in the order a dialog or a folder walk lists them
Listing == <<IMG \o D2023 \o Jpg, Photo \o Jpg, DSC \o D2023 \o T1430 \o Jpg>>

FileAt(path) == CHOOSE f \in BatchFiles : f.path = path

\* what _get_image_datetime returns for each file of a batch
DateTimeStr == [path \in {f.path : f \in BatchFiles} |-> GetImageDatetime(FileAt(path))]

\* what a file or folder selection can hand to _process_selected_files
PathLists == {SubSeq(Listing, 1, n) : n \in 1..MaxFiles}

Progress(b, i, n) == [kind |-> "Progress", batch |-> b, index |-> i, total |-> n]
Result(b, path, ts) == [kind |-> "Result", batch |-> b, path |-> path, ts |-> ts]
Completed(b) == [kind |-> "Completed", batch |-> b]
\* a slot run for a signal of kind `kind` from batch b while batch `during` was the current one
Delivery(kind, b, during) == [kind |-> kind, batch |-> b, during |-> during]

\* QThread.isRunning()
IsRunning(w) == workers[w].pc # "done"

\* mutant: the running prior worker is not noticed, so it is neither cancelled nor awaited
PriorRunningNever == FALSE

\* the test of lines 372 and 418: a prior worker exists and is running
PriorRunning == datetime_extractor_thread # 0 /\ IsRunning(datetime_extractor_thread)

\* requestInterruption() on the current worker
RequestInterruption == [workers EXCEPT ![datetime_extractor_thread].interruption = TRUE]

\* DateTimeExtractor(file_paths), the three connect calls and start()
NewWorker(file_paths) ==
    [file_paths |-> file_paths, i |-> 0, pc |-> "loop", interruption |-> FALSE, emitted |-> <<>>]

StartWorker(ws, file_paths) ==
    /\ workers' = Append(ws, NewWorker(file_paths))
    /\ datetime_extractor_thread' = Len(ws) + 1
    /\ UNCHANGED stale

\* _process_selected_files up to its return or to its wait()
ProcessSelectedFiles(file_paths) ==
    /\ photo_list_widget' = <<>>
    /\ selected_photos' = <<>>
    /\ emptied' = FALSE
    /\ IF PriorRunning
       THEN /\ workers' = RequestInterruption
            /\ mainpc' = "wait_restart"
            /\ pending' = file_paths
            /\ UNCHANGED <<datetime_extractor_thread, stale>>
       ELSE /\ StartWorker(workers, file_paths)
            /\ UNCHANGED <<mainpc, pending>>
    /\ UNCHANGED queue

\* _select_files with a non-empty choice
SelectFiles(file_paths) ==
    /\ mainpc = "idle"
    /\ Len(workers) < MaxBatches
    /\ ProcessSelectedFiles(file_paths)

\* _select_folder: a folder with image files, or one without
SelectFolder(image_files) ==
    /\ mainpc = "idle"
    /\ IF image_files # <<>>
       THEN /\ Len(workers) < MaxBatches
            /\ ProcessSelectedFiles(image_files)
       ELSE /\ photo_list_widget' = <<>>
            /\ selected_photos' = <<>>
            /\ emptied' = TRUE
            /\ UNCHANGED <<workers, datetime_extractor_thread, queue, stale, mainpc, pending>>

\* wait() of _process_selected_files returns, the new worker is created and started
WaitRestartReturns ==
    /\ mainpc = "wait_restart"
    /\ ~IsRunning(datetime_extractor_thread)
    /\ StartWorker(workers, pending)
    /\ mainpc' = "idle"
    /\ pending' = <<>>
    /\ UNCHANGED <<queue, emptied, selected_photos, photo_list_widget>>

\* _add_photo_to_list
AddPhotoToList(file_path, date_time_str) ==
    /\ photo_list_widget' = Append(photo_list_widget, [path |-> file_path, date_time_str |-> date_time_str])
    /\ selected_photos' = [p \in DOMAIN selected_photos \cup {file_path} |->
                              IF p = file_path THEN date_time_str ELSE selected_photos[p]]

\* the event loop runs the slot of the oldest queued signal: _add_photo_to_list for
\* datetime_extracted; the slots of status_message and extraction_finished only
\* write the status bar, which is not part of the state
Deliver ==
    /\ mainpc = "idle"
    /\ queue # <<>>
    /\ LET ev == Head(queue) IN
         /\ queue' = Tail(queue)
         /\ stale' = IF ev.kind \in {"Result", "Completed"} /\ ev.batch # datetime_extractor_thread
                      THEN stale \cup {Delivery(ev.kind, ev.batch, datetime_extractor_thread)}
                      ELSE stale
         /\ IF ev.kind = "Result"
            THEN AddPhotoToList(ev.path, ev.ts)
            ELSE UNCHANGED <<selected_photos, photo_list_widget>>
    /\ UNCHANGED <<workers, datetime_extractor_thread, emptied, mainpc, pending>>

\* aboutToQuit: _cleanup_threads up to its return or to its wait()
CleanupThreads ==
    /\ mainpc = "idle"
    /\ IF PriorRunning
       THEN workers' = RequestInterruption /\ mainpc' = "wait_quit"
       ELSE UNCHANGED workers /\ mainpc' = "quit"
    /\ UNCHANGED <<datetime_extractor_thread, queue, stale, emptied, selected_photos,
                   photo_list_widget, pending>>

WaitQuitReturns ==
    /\ mainpc = "wait_quit"
    /\ ~IsRunning(datetime_extractor_thread)
    /\ mainpc' = "quit"
    /\ UNCHANGED <<workers, datetime_extractor_thread, queue, stale, emptied, selected_photos,
                   photo_list_widget, pending>>

\* mutant: a file whose sources all fail gets no result
ResultSignalsDropUnknown(b, file_path) ==
    IF DateTimeStr[file_path] = Unknown THEN <<>>
    ELSE <<Result(b, file_path, DateTimeStr[file_path])>>

\* the signals of one file, after its resolution: datetime_extracted
ResultSignals(b, file_path) == <<Result(b, file_path, DateTimeStr[file_path])>>

\* the signal before a file is resolved: status_message
ProgressSignals(b, i, n) == <<Progress(b, i + 1, n)>>

\* mutant: the worker never sees the interruption request
IsInterruptionRequestedNever(w) == FALSE

\* self.isInterruptionRequested() of line 35
IsInterruptionRequested(w) == workers[w].interruption

\* run(): top of the loop with a file left: the interruption check, and either the
\* return (run() returns and the thread finishes) or status_message
RunLoop(w) ==
    /\ workers[w].pc = "loop"
    /\ workers[w].i < Len(workers[w].file_paths)
    /\ IF IsInterruptionRequested(w)
       THEN /\ workers' = [workers EXCEPT ![w].pc = "done"]
            /\ UNCHANGED queue
       ELSE /\ workers' = [workers EXCEPT ![w].pc = "file",
                                          ![w].emitted = @ \o ProgressSignals(w, workers[w].i, Len(workers[w].file_paths))]
            /\ queue' = queue \o ProgressSignals(w, workers[w].i, Len(workers[w].file_paths))
    /\ UNCHANGED <<datetime_extractor_thread, stale, emptied, selected_photos, photo_list_widget,
                   mainpc, pending>>

\* run(): _get_image_datetime of the current file, then datetime_extracted
RunFile(w) ==
    /\ workers[w].pc = "file"
    /\ queue' = queue \o ResultSignals(w, workers[w].file_paths[workers[w].i + 1])
    /\ workers' = [workers EXCEPT ![w].pc = "loop", ![w].i = @ + 1,
                                  ![w].emitted = @ \o ResultSignals(w, workers[w].file_paths[workers[w].i + 1])]
    /\ UNCHANGED <<datetime_extractor_thread, stale, emptied, selected_photos, photo_list_widget,
                   mainpc, pending>>

\* run(): the loop is exhausted: extraction_finished, run() returns and the thread finishes
RunEnd(w) ==
    /\ workers[w].pc = "loop"
    /\ workers[w].i = Len(workers[w].file_paths)
    /\ queue' = Append(queue, Completed(w))
    /\ workers' = [workers EXCEPT ![w].pc = "done", ![w].emitted = Append(@, Completed(w))]
    /\ UNCHANGED <<datetime_extractor_thread, stale, emptied, selected_photos, photo_list_widget,
                   mainpc, pending>>

BatchInit ==
    /\ workers = <<>>
    /\ datetime_extractor_thread = 0
    /\ queue = <<>>
    /\ stale = {}
    /\ emptied = FALSE
    /\ selected_photos = <<>>
    /\ photo_list_widget = <<>>
    /\ mainpc = "idle"
    /\ pending = <<>>

(***************************************************************************)
(* Print path: placement of one photo, and the job loop of _print_action   *)
(***************************************************************************)
MaxDim == 6
MaxPhotos == 3

\* mutant: Qt.KeepAspectRatioByExpanding, the image covers the area instead of fitting it
QSizeScaledExpanding(w, h, tw, th) ==
    LET rw == (th * w) \div h
    IN  IF rw >= tw THEN [w |-> rw, h |-> th]
        ELSE [w |-> tw, h |-> (tw * h) \div w]

\* QSize.scaled(target, Qt.KeepAspectRatio), in integer arithmetic as Qt computes it
QSizeScaled(w, h, tw, th) ==
    LET rw == (th * w) \div h
    IN  IF rw <= tw THEN [w |-> rw, h |-> th]
        ELSE [w |-> tw, h |-> (tw * h) \div w]

Max(a, b) == IF a >= b THEN a ELSE b

\* pixmap.scaled(target_width_px, target_height_px, KeepAspectRatio, ...): no side below 1
PixmapScaled(w, h, tw, th) ==
    [w |-> Max(QSizeScaled(w, h, tw, th).w, 1), h |-> Max(QSizeScaled(w, h, tw, th).h, 1)]

\* int(n / 2): Python's true division, then truncation toward zero
IntHalf(n) == IF n >= 0 THEN n \div 2 ELSE -((-n) \div 2)

\* draw_rect for a pixmap of w x h in a printable area of tw x th
DrawRect(w, h, tw, th) ==
    LET scaled_pixmap == PixmapScaled(w, h, tw, th)
    IN  [x |-> IntHalf(tw - scaled_pixmap.w), y |-> IntHalf(th - scaled_pixmap.h),
         w |-> scaled_pixmap.w, h |-> scaled_pixmap.h]

\* the photos of the list widget: path, whether Image.open and the conversions succeed, size
PrintPhotos == {
    [path |-> IMG \o D2023 \o Jpg, decodable |-> TRUE, w |-> 4, h |-> 3],
    [path |-> Photo \o Jpg, decodable |-> FALSE, w |-> 0, h |-> 0],
    [path |-> DSC \o D2023 \o T1430 \o Jpg, decodable |-> TRUE, w |-> 20, h |-> 40],
    [path |-> D2024 \o Jpg, decodable |-> TRUE, w |-> 5, h |-> 5] }

Selections ==
    UNION {{l \in [1..n -> PrintPhotos] : \A i, j \in 1..n : i # j => l[i] # l[j]} : n \in 0..MaxPhotos}

\* printer.pageRect(DevicePixel), truncated to integers
PageRects == {[w |-> 10, h |-> 15], [w |-> 7, h |-> 7]}

Draw(photo, text, rect) == [op |-> "drawPixmap", path |-> photo.path, text |-> text, rect |-> rect]
NewPage == [op |-> "newPage"]

\* mutant: a page break after every photo, the last included
PageBreakAfterEvery(i, n) == i < n

\* the test of line 617: a page break after every photo but the last (i counts from 0)
PageBreakAfter(i, n) == i < n - 1

\* mutant: the result of painter.begin is not looked at
BeginFailedIgnored(begin_ok) == FALSE

\* the test of line 540: painter.begin(printer) failed
BeginFailed(begin_ok) == ~begin_ok

\* self.selected_photos.get(file_path, <unknown literal>)
DateTimeStrOf(file_path) ==
    IF file_path \in DOMAIN selected_photos THEN selected_photos[file_path] ELSE Unknown

\* the for loop of _print_action from item i (counted from 0) on; an exception ends it
RECURSIVE PrintLoop(_, _, _, _, _)
PrintLoop(items, i, page, out, seen) ==
    IF i >= Len(items) THEN [sink |-> out, opened |-> seen, raised |-> FALSE]
    ELSE LET photo == items[i + 1] IN
         IF ~photo.decodable
         THEN [sink |-> out, opened |-> Append(seen, photo.path), raised |-> TRUE]
         ELSE PrintLoop(items, i + 1, page,
                        Append(out, Draw(photo, DateTimeStrOf(photo.path),
                                         DrawRect(photo.w, photo.h, page.w, page.h)))
                            \o (IF PageBreakAfter(i, Len(items)) THEN <<NewPage>> ELSE <<>>),
                        Append(seen, photo.path))

\* _print_action
PrintAction(accepted, begin_ok, page) ==
    /\ selected_items' = selection
    /\ IF selection = <<>>
       THEN /\ print_status' = "nothing selected"
            /\ painter_begin' = "not called"
            /\ sink' = <<>> /\ opened' = <<>> /\ error_box' = FALSE
       ELSE IF ~accepted
       THEN /\ print_status' = "cancelled"
            /\ painter_begin' = "not called"
            /\ sink' = <<>> /\ opened' = <<>> /\ error_box' = FALSE
       ELSE IF BeginFailed(begin_ok)
       THEN /\ print_status' = "failed"
            /\ painter_begin' = "failed"
            /\ sink' = <<>> /\ opened' = <<>> /\ error_box' = TRUE
       ELSE LET job == PrintLoop(selection, 0, page, <<>>, <<>>) IN
            /\ painter_begin' = IF begin_ok THEN "ok" ELSE "failed"
            /\ sink' = job.sink
            /\ opened' = job.opened
            /\ error_box' = job.raised
            /\ print_status' = IF job.raised THEN "failed" ELSE "done"
    /\ UNCHANGED selection

\* the user changes the selection of the list widget
SelectionChanged(items) ==
    /\ selection' = items
    /\ UNCHANGED <<selected_items, painter_begin, sink, opened, print_status, error_box>>

PrintInit ==
    /\ selection = <<>>
    /\ selected_items = <<>>
    /\ painter_begin = "not called"
    /\ sink = <<>>
    /\ opened = <<>>
    /\ print_status = "none"
    /\ error_box = FALSE

\* the placement of one photo
Layout ==
    /\ placement = NullRect
    /\ placement' = DrawRect(geom.w, geom.h, geom.tw, geom.th)
    /\ UNCHANGED geom

LayoutInit == geom = [w |-> 1, h |-> 1, tw |-> 1, th |-> 1] /\ placement = NullRect

ResolveInit == file = FileAt(Photo \o Jpg) /\ resolved = NotYet

\* one call of _get_image_datetime
ResolveTimestamp ==
    /\ resolved = NotYet
    /\ resolved' = GetImageDatetime(file)
    /\ UNCHANGED file

(***************************************************************************)
(* Specifications                                                          *)
(***************************************************************************)
\* batch extraction: the main thread and the workers
Init == BatchInit /\ PrintInit /\ LayoutInit /\ ResolveInit

Next ==
    \/ \E l \in PathLists : SelectFiles(l) /\ UNCHANGED <<resolveVars, printVars, layoutVars>>
    \/ \E l \in PathLists \cup {<<>>} : SelectFolder(l) /\ UNCHANGED <<resolveVars, printVars, layoutVars>>
    \/ WaitRestartReturns /\ UNCHANGED <<resolveVars, printVars, layoutVars>>
    \/ Deliver /\ UNCHANGED <<resolveVars, printVars, layoutVars>>
    \/ \E w \in 1..Len(workers) : RunLoop(w) /\ UNCHANGED <<resolveVars, printVars, layoutVars>>
    \/ \E w \in 1..Len(workers) : RunFile(w) /\ UNCHANGED <<resolveVars, printVars, layoutVars>>
    \/ \E w \in 1..Len(workers) : RunEnd(w) /\ UNCHANGED <<resolveVars, printVars, layoutVars>>

Spec == Init /\ [][Next]_vars

\* batch extraction with the application's quit
NextQuit ==
    \/ Next
    \/ CleanupThreads /\ UNCHANGED <<resolveVars, printVars, layoutVars>>
    \/ WaitQuitReturns /\ UNCHANGED <<resolveVars, printVars, layoutVars>>

SpecQuit == Init /\ [][NextQuit]_vars

\* one step of worker w's run()
WorkerStep(w) ==
    /\ w \in 1..Len(workers)
    /\ (RunLoop(w) \/ RunFile(w) \/ RunEnd(w))
    /\ UNCHANGED <<resolveVars, printVars, layoutVars>>

\* a started thread keeps being scheduled until run() returns, and wait() returns
\* once the thread has finished; nothing is assumed of the user or of the event loop
Fairness ==
    /\ \A w \in 1..MaxBatches : WF_vars(WorkerStep(w))
    /\ WF_vars(WaitRestartReturns /\ UNCHANGED <<resolveVars, printVars, layoutVars>>)
    /\ WF_vars(WaitQuitReturns /\ UNCHANGED <<resolveVars, printVars, layoutVars>>)

\* cancellation: the two callers of requestInterruption() and wait(), the workers and
\* the event loop; batches are started through _select_files (_select_folder reaches
\* the worker only through the same _process_selected_files)
NextCancel ==
    \/ \E l \in PathLists : SelectFiles(l) /\ UNCHANGED <<resolveVars, printVars, layoutVars>>
    \/ WaitRestartReturns /\ UNCHANGED <<resolveVars, printVars, layoutVars>>
    \/ Deliver /\ UNCHANGED <<resolveVars, printVars, layoutVars>>
    \/ \E w \in 1..Len(workers) : RunLoop(w) /\ UNCHANGED <<resolveVars, printVars, layoutVars>>
    \/ \E w \in 1..Len(workers) : RunFile(w) /\ UNCHANGED <<resolveVars, printVars, layoutVars>>
    \/ \E w \in 1..Len(workers) : RunEnd(w) /\ UNCHANGED <<resolveVars, printVars, layoutVars>>
    \/ CleanupThreads /\ UNCHANGED <<resolveVars, printVars, layoutVars>>
    \/ WaitQuitReturns /\ UNCHANGED <<resolveVars, printVars, layoutVars>>

SpecCancel == Init /\ [][NextCancel]_vars /\ Fairness

\* the resolver applied to every file of Files
InitResolve == BatchInit /\ PrintInit /\ LayoutInit /\ file \in Files /\ resolved = NotYet

NextResolve == ResolveTimestamp /\ UNCHANGED <<batchVars, printVars, layoutVars>>

SpecResolve == InitResolve /\ [][NextResolve]_vars

\* print jobs over every selection
InitPrint == BatchInit /\ PrintInit /\ LayoutInit /\ ResolveInit

NextPrint ==
    \/ \E items \in Selections : SelectionChanged(items) /\ UNCHANGED <<resolveVars, batchVars, layoutVars>>
    \/ \E accepted \in BOOLEAN, begin_ok \in BOOLEAN, page \in PageRects :
         PrintAction(accepted, begin_ok, page) /\ UNCHANGED <<resolveVars, batchVars, layoutVars>>

SpecPrint == InitPrint /\ [][NextPrint]_vars

\* the placement computed for every image size and printable area
InitLayout ==
    /\ BatchInit /\ PrintInit /\ ResolveInit
    /\ geom \in [w : 1..MaxDim, h : 1..MaxDim, tw : 1..MaxDim, th : 1..MaxDim]
    /\ placement = NullRect

NextLayout == Layout /\ UNCHANGED <<resolveVars, batchVars, printVars>>

SpecLayout == InitLayout /\ [][NextLayout]_vars

(***************************************************************************)
(* Properties of the resolver (SpecResolve)                                *)
(***************************************************************************)
ExifFmt == "%Y:%m:%d %H:%M:%S"

\* the valid capture times a file's metadata holds, formatted
EmbeddedTimes(f) ==
    IF f.image # "ok" THEN {}
    ELSE {Strftime(Strptime(f.exif[k].value, ExifFmt)) :
            k \in {j \in DOMAIN f.exif :
                     f.exif[j].tag \in DateTags /\ Strptime(f.exif[j].value, ExifFmt).ok}}

\* the instants the patterns of `pats` infer from the base name of a path
InferredTimes(pats, path) ==
    {Strftime(TryPattern(pats[k], Basename(path))) :
        k \in {j \in DOMAIN pats : TryPattern(pats[j], Basename(path)).ok}}

\* C1: the resolver applies the three tiers in strict order and stops at the first
\* that yields a value: a valid embedded capture time is returned whatever the
\* filesystem time and the filename are; without one, the filesystem creation time
\* is returned when the stat call succeeds; without either, a time inferred from
\* the filename; and the result is the fixed non-empty Unknown literal exactly when
\* all three tiers fail.
C1_TiersInStrictOrder ==
    resolved # NotYet =>
        /\ EmbeddedTimes(file) # {} => resolved \in EmbeddedTimes(file)
        /\ (EmbeddedTimes(file) = {} /\ file.ctime.ok) => resolved = Strftime(file.ctime)
        /\ (EmbeddedTimes(file) = {} /\ ~file.ctime.ok /\ InferredTimes(patterns, file.path) # {})
              => resolved \in InferredTimes(patterns, file.path)
        /\ resolved = Unknown <=>
              (EmbeddedTimes(file) = {} /\ ~file.ctime.ok /\ InferredTimes(patterns, file.path) = {})
        /\ Len(Unknown) > 0

\* a file whose three sources all yield a value, the three values differing: the
\* embedded one is the result
C1_Witness ==
    /\ resolved # NotYet
    /\ EmbeddedTimes(file) # {}
    /\ file.ctime.ok
    /\ InferredTimes(patterns, file.path) # {}
    /\ Strftime(file.ctime) \notin EmbeddedTimes(file)
    /\ InferredTimes(patterns, file.path) \cap (EmbeddedTimes(file) \cup {Strftime(file.ctime)}) = {}
    /\ resolved \in EmbeddedTimes(file)

\* the priority order of the patterns as the specification lists it
SpecOrderPatterns == <<patterns[2], patterns[1], patterns[3], patterns[5], patterns[4]>>

\* the first pattern of `pats` that matches somewhere in the name, 0 if none does
FirstMatching(pats, filename) ==
    LET hits == {k \in DOMAIN pats : Search(pats[k].pattern, filename) # 0}
    IN  IF hits = {} THEN 0 ELSE CHOOSE k \in hits : \A j \in hits : k <= j

\* C6: when the filename decides, the result comes from the first pattern that
\* matches in the priority order IMG_<8>_<6>, <8>_<6>, DSC_<14>, IMG_<8>, <8>, even
\* if a lower-priority pattern also matches elsewhere in the name (stated for the
\* names whose first matching pattern converts).
C6_SpecPriorityOrder ==
    (resolved # NotYet /\ ExifTier(file) = Fall /\ CtimeTier(file) = Fall) =>
        LET filename == Basename(file.path)
            k == FirstMatching(SpecOrderPatterns, filename)
        IN  (k # 0 /\ TryPattern(SpecOrderPatterns[k], filename).ok)
               => resolved = Strftime(TryPattern(SpecOrderPatterns[k], filename))

(***************************************************************************)
(* Properties of batch extraction (Spec)                                   *)
(***************************************************************************)
Workers == 1..Len(workers)

CountKind(events, kind) == Cardinality({k \in DOMAIN events : events[k].kind = kind})

\* C2: a batch whose cancellation was requested during the worker's run (before a
\* check, or while a file, the last one included, is being processed) never emits
\* the Completed event: its events are the Progress and Result events of the
\* files begun before the flag was observed, and nothing else.
C2_CancelledBatchNeverCompletes ==
    \A w \in Workers :
        workers[w].interruption =>
            /\ CountKind(workers[w].emitted, "Completed") = 0
            /\ CountKind(workers[w].emitted, "Result") <= workers[w].i

\* C3: when a new batch is started while an earlier one is in flight, no Result or
\* Completed event of the earlier, cancelled batch is delivered after the new batch
\* has been started, so the result collection then holds only entries the new
\* batch produced.
C3_NoDeliveryAcrossBatches ==
    /\ \A d \in stale : ~workers[d.batch].interruption
    /\ (/\ mainpc = "idle"
        /\ datetime_extractor_thread > 1
        /\ workers[datetime_extractor_thread - 1].interruption) =>
          \A p \in DOMAIN selected_photos :
              \E k \in DOMAIN workers[datetime_extractor_thread].emitted :
                  /\ workers[datetime_extractor_thread].emitted[k].kind = "Result"
                  /\ workers[datetime_extractor_thread].emitted[k].path = p

\* C4: at most one worker is running at any time.
C4_AtMostOneWorkerRuns == Cardinality({w \in Workers : IsRunning(w)}) <= 1

\* a second batch was started while the first was running: the first was
\* interrupted and has stopped, the second runs
C4_Witness ==
    /\ Len(workers) >= 2
    /\ workers[1].interruption
    /\ ~IsRunning(1)
    /\ IsRunning(2)

\* the events of an uninterrupted batch over file_paths, in order
RECURSIVE ExpectedEvents(_, _, _)
ExpectedEvents(b, file_paths, k) ==
    IF k > Len(file_paths) THEN <<Completed(b)>>
    ELSE <<Progress(b, k, Len(file_paths)),
           Result(b, file_paths[k], DateTimeStr[file_paths[k]])>>
            \o ExpectedEvents(b, file_paths, k + 1)

IsPrefix(a, b) == Len(a) <= Len(b) /\ SubSeq(b, 1, Len(a)) = a

\* C5: a batch that is never cancelled emits, for each file in input order, one
\* Progress(index, total) and then one Result for that file, and after the last
\* file one Completed and nothing more; a file whose sources all fail still gets
\* its Result (with the Unknown literal).
C5_UncancelledBatchEvents ==
    \A w \in Workers :
        ~workers[w].interruption =>
            /\ IsPrefix(workers[w].emitted, ExpectedEvents(w, workers[w].file_paths, 1))
            /\ workers[w].pc = "done" =>
                  workers[w].emitted = ExpectedEvents(w, workers[w].file_paths, 1)

\* an uncancelled batch of two files, one of them with no usable source, has stopped
C5_Witness ==
    \E w \in Workers :
        /\ ~workers[w].interruption
        /\ workers[w].pc = "done"
        /\ Len(workers[w].file_paths) >= 2
        /\ \E k \in DOMAIN workers[w].emitted :
              workers[w].emitted[k].kind = "Result" /\ workers[w].emitted[k].ts = Unknown
        /\ CountKind(workers[w].emitted, "Completed") = 1

(***************************************************************************)
(* Properties of the print job (SpecPrint) and of the placement            *)
(* (SpecLayout)                                                            *)
(***************************************************************************)
\* the paths drawn by the job, in order
RECURSIVE DrawnPaths(_)
DrawnPaths(ops) ==
    IF ops = <<>> THEN <<>>
    ELSE (IF Head(ops).op = "drawPixmap" THEN <<Head(ops).path>> ELSE <<>>) \o DrawnPaths(Tail(ops))

RECURSIVE DecodablePaths(_)
DecodablePaths(items) ==
    IF items = <<>> THEN <<>>
    ELSE (IF Head(items).decodable THEN <<Head(items).path>> ELSE <<>>) \o DecodablePaths(Tail(items))

\* C7: in a job whose rendering surface was initialised, a photo that fails to
\* decode does not abort the job: every other photo of the job is drawn, in
\* input order.
C7_PhotoFailuresIsolated ==
    painter_begin = "ok" => DrawnPaths(sink) = DecodablePaths(selected_items)

CountDraws == Cardinality({j \in DOMAIN sink : sink[j].op = "drawPixmap"})
CountBreaks == Cardinality({j \in DOMAIN sink : sink[j].op = "newPage"})

\* C8: the job's output alternates draws and page breaks starting with a draw, the
\* k-th draw being the k-th photo; a job of N photos that completes has emitted
\* exactly N draws and N-1 page breaks, so no page break precedes the first draw
\* or follows the last.
C8_PageSequence ==
    /\ \A j \in DOMAIN sink :
          IF j % 2 = 1
          THEN sink[j].op = "drawPixmap" /\ sink[j].path = selected_items[(j + 1) \div 2].path
          ELSE sink[j] = NewPage
    /\ print_status = "done" =>
          /\ Len(sink) = 2 * Len(selected_items) - 1
          /\ CountDraws = Len(selected_items)
          /\ CountBreaks = Len(selected_items) - 1

\* a job of three photos has completed
C8_Witness ==
    /\ print_status = "done"
    /\ Len(selected_items) = 3
    /\ Len(sink) = 5

Abs(n) == IF n >= 0 THEN n ELSE -n

\* C9: the scaled image fits the printable area, keeps the aspect ratio of the
\* source within one pixel of rounding, and is centred with offsets
\* (printable - scaled) / 2 rounded toward zero, so the offsets are non-negative
\* and the rectangle lies inside the printable area.
C9_PlacementFitsAndCentred ==
    placement # NullRect =>
        /\ placement.w >= 1 /\ placement.w <= geom.tw
        /\ placement.h >= 1 /\ placement.h <= geom.th
        /\ \/ placement.w = geom.tw /\ Abs(placement.h * geom.w - geom.tw * geom.h) < geom.w
           \/ placement.h = geom.th /\ Abs(placement.w * geom.h - geom.th * geom.w) < geom.h
        /\ 2 * placement.x <= geom.tw - placement.w /\ geom.tw - placement.w <= 2 * placement.x + 1
        /\ 2 * placement.y <= geom.th - placement.h /\ geom.th - placement.h <= 2 * placement.y + 1
        /\ placement.x >= 0 /\ placement.y >= 0
        /\ placement.x + placement.w <= geom.tw
        /\ placement.y + placement.h <= geom.th

\* an image larger than the printable area in both directions, placed with a margin
C9_Witness ==
    /\ placement # NullRect
    /\ geom.w > geom.tw
    /\ geom.h > geom.th
    /\ placement.y > 0

\* C10: when painter.begin fails the job aborts before any page: no photo is
\* decoded or drawn, no page break is issued, and the failure is reported.
C10_BeginFailureAborts ==
    painter_begin = "failed" =>
        /\ sink = <<>>
        /\ opened = <<>>
        /\ error_box
        /\ print_status = "failed"

\* painter.begin failed in a job of several photos
C10_Witness ==
    /\ painter_begin = "failed"
    /\ Len(selected_items) >= 2
    /\ \E k \in DOMAIN selected_items : selected_items[k].decodable

(***************************************************************************)
(* Properties of the embedded-metadata tier and of filename inference      *)
(* (SpecResolve)                                                           *)
(***************************************************************************)
\* the value a container holds under a tag (the containers list a tag at most once)
TagValue(exif, tag) == exif[CHOOSE k \in DOMAIN exif : exif[k].tag = tag].value

HasTag(exif, tag) == \E k \in DOMAIN exif : exif[k].tag = tag

\* a readable file whose container exposes both date tags, each with a value that
\* converts, the two values differing
BothTagsValid(f) ==
    /\ f.image = "ok"
    /\ HasTag(f.exif, "DateTimeOriginal") /\ HasTag(f.exif, "DateTimeDigitized")
    /\ Strptime(TagValue(f.exif, "DateTimeOriginal"), ExifFmt).ok
    /\ Strptime(TagValue(f.exif, "DateTimeDigitized"), ExifFmt).ok
    /\ TagValue(f.exif, "DateTimeOriginal") # TagValue(f.exif, "DateTimeDigitized")

\* C11: when a container exposes both date tags with valid but different values,
\* the embedded-metadata tier returns the original-capture-time value, whatever
\* order the container lists its tags in.
C11_OriginalBeforeDigitized ==
    (resolved # NotYet /\ BothTagsValid(file)) =>
        resolved = Strftime(Strptime(TagValue(file.exif, "DateTimeOriginal"), ExifFmt))

\* the patterns of `pats` that match the name and whose matched text converts
Converting(pats, filename) == {k \in DOMAIN pats : TryPattern(pats[k], filename).ok}

\* the patterns of `pats` that match the name but whose matched text does not convert
MatchedNotConverting(pats, filename) ==
    {k \in DOMAIN pats : Search(pats[k].pattern, filename) # 0 /\ ~TryPattern(pats[k], filename).ok}

\* the least element of a non-empty set of indices
Least(S) == CHOOSE k \in S : \A j \in S : k <= j

\* C12: in filename inference a pattern that matches but does not convert does not
\* stop the scan: the filename tier yields Unknown only when every pattern either
\* does not match or fails to convert, and otherwise yields the value of the first
\* pattern, in the order of the pattern list, that both matches and converts.
C12_ContinueAfterFailedConversion ==
    (resolved # NotYet /\ ExifTier(file) = Fall /\ CtimeTier(file) = Fall) =>
        LET filename == Basename(file.path)
            good == Converting(patterns, filename)
        IN  /\ resolved = Unknown <=> good = {}
            /\ good # {} => resolved = Strftime(TryPattern(patterns[Least(good)], filename))

\* a name whose first matching pattern fails to convert (hour 25) while a later
\* pattern converts: the later pattern's value is the result
C12_Witness ==
    /\ resolved # NotYet /\ ExifTier(file) = Fall /\ CtimeTier(file) = Fall
    /\ LET filename == Basename(file.path)
           good == Converting(patterns, filename)
           bad == MatchedNotConverting(patterns, filename)
       IN  /\ good # {} /\ bad # {}
           /\ Least(bad) < Least(good)
           /\ resolved = Strftime(TryPattern(patterns[Least(good)], filename))
           /\ resolved # Unknown

(***************************************************************************)
(* Properties of clearing and of cancellation (Spec, SpecQuit)             *)
(***************************************************************************)
\* C13: once the selection is cleared because a chosen folder contains no image
\* files, the photo list and the result collection stay empty until a new batch is
\* started, even when a batch was still in flight at the moment of clearing.
C13_ClearedStaysEmpty ==
    emptied => (selected_photos = <<>> /\ photo_list_widget = <<>>)

\* an interrupted worker at the top of its loop does not begin another file
InterruptedStartsNoFile ==
    \A w \in 1..Len(workers) :
        (workers[w].interruption /\ workers[w].pc = "loop") => workers'[w].pc # "file"

\* the main thread is blocked in one of the two wait() calls
Waiting == mainpc \in {"wait_restart", "wait_quit"}

\* the main thread leaves a wait only once the awaited worker has stopped; the wait
\* of a restart is followed by the start of the new batch as the current worker,
\* the wait of a quit by the end of the cleanup
WaitReturnsAfterStop ==
    (Waiting /\ mainpc' # mainpc) =>
        /\ workers[datetime_extractor_thread].interruption
        /\ ~IsRunning(datetime_extractor_thread)
        /\ mainpc = "wait_quit" => mainpc' = "quit"
        /\ mainpc = "wait_restart" =>
              /\ mainpc' = "idle"
              /\ Len(workers') = Len(workers) + 1
              /\ datetime_extractor_thread' = Len(workers')
              /\ workers'[datetime_extractor_thread'] = NewWorker(pending)

\* C14: cancellation always completes: after interruption is requested of a running
\* worker, on restart or on quit, the worker begins no further file and stops, the
\* main thread's wait on it returns, and on restart the new batch is then started;
\* the main thread blocked in wait while the worker emits events never deadlocks.
C14_CancellationCompletes ==
    /\ [][InterruptedStartsNoFile /\ WaitReturnsAfterStop]_vars
    /\ Waiting ~> ~Waiting

\* a restart has cancelled a worker that stopped with files left, and the new batch
\* has been started
C14_Witness ==
    /\ mainpc = "idle"
    /\ datetime_extractor_thread > 1
    /\ LET w == datetime_extractor_thread - 1 IN
         /\ workers[w].interruption
         /\ workers[w].pc = "done"
         /\ workers[w].i < Len(workers[w].file_paths)
====
